---- MODULE Spec2Model ----
(***************************************************************************)
(* A model of package ipset (src/ipset.go): a wrapper that turns method    *)
(* calls into invocations of the ipset binary, captures the child's        *)
(* stdout and stderr, and (for List) parses the captured stdout.           *)
(*                                                                         *)
(* Text (stdout, stderr, error messages) is a sequence of characters over  *)
(* a small alphabet in which the eight characters of "Members:" are one    *)
(* symbol; argv tokens are opaque strings.  Go indices are kept 0-based:   *)
(* the Go element lines[i] is the TLA+ element lines[i + 1].               *)
(***************************************************************************)
EXTENDS Integers, Sequences, FiniteSets, TLC

VARIABLES
    pathEnv,    \* what the executable search path holds for "ipset" now
    handle,     \* the *IPSet each New() returned (or nil)
    resolved,   \* history: the path the latest LookPath of New() returned
    call,       \* one record per thread of control calling the package
    child,      \* the child process each call spawned
    buffers     \* the pair of bytes.Buffer each run() declares

vars == <<pathEnv, handle, resolved, call, child, buffers>>

----------------------------------------------------------------------------
(* Bounds and input domains *)

\* the longest stdout text a child prints in the listing specification
MaxLen == 7
\* the longest text a child prints on one stream in the lifecycle specification
MaxOut == 2
\* the same for the two concurrent calls
MaxConcOut == 1
\* the longest sequence of extra option tokens a caller passes
MaxOpts == 2

Handles == {"h1", "h2"}
Calls == {"c1", "c2"}

NotFound == "(not found)"
BinPaths == {"/usr/sbin/ipset"}
PathEnvs == BinPaths \cup {NotFound}

Marker == "Members:"
ListChars == {Marker, "1", " ", "\n"}
OutChars == {Marker, "1", "\n"}
ErrChars == {"e", " "}
ExitCodes == {0, 1}

ArgStrings == {"", "a", "b"}
OptTokens == {"timeout", "-exist"}
SmallStrings == {"a"}
SmallOpts == {<<>>, <<"timeout", "300">>}

RECURSIVE SeqsUpTo(_, _)
SeqsUpTo(S, n) ==
    IF n = 0 THEN {<<>>}
    ELSE LET shorter == SeqsUpTo(S, n - 1)
         IN  shorter \cup {Append(s, x) : s \in shorter, x \in S}

OptSeqs == SeqsUpTo(OptTokens, MaxOpts)

----------------------------------------------------------------------------
(* Go values *)

NilErr == [nil |-> TRUE, msg |-> <<>>]
ErrorsNew(text) == [nil |-> FALSE, msg |-> text]

NilHandle == [nil |-> TRUE, Path |-> "", Options |-> <<>>]

\* bytes.Buffer: Write appends, String returns everything written so far
EmptyBuffer == <<>>
Write(buf, p) == buf \o p
String(buf) == buf

NoChild == [state |-> "none", code |-> 0, stdout |-> <<>>, stderr |-> <<>>]
NoRet == [members |-> <<>>, err |-> NilErr]
NoCmd == [Path |-> "", Args |-> <<>>]
IdleCall ==
    [pc |-> "idle", op |-> "", h |-> "", pos |-> <<>>, options |-> <<>>,
     cmd |-> NoCmd, spawns |-> 0, readAt |-> "", ret |-> NoRet]

----------------------------------------------------------------------------
(* strings.TrimSpace and strings.Split, as List uses them *)

IsSpace(ch) == ch \in {" ", "\n", "\t", "\r"}

RECURSIVE TrimLeft(_)
TrimLeft(s) ==
    IF s # <<>> /\ IsSpace(Head(s)) THEN TrimLeft(Tail(s)) ELSE s

RECURSIVE TrimRight(_)
TrimRight(s) ==
    IF s # <<>> /\ IsSpace(s[Len(s)])
    THEN TrimRight(SubSeq(s, 1, Len(s) - 1))
    ELSE s

TrimSpace(s) == TrimRight(TrimLeft(s))

RECURSIVE IndexOf(_, _, _)
\* the first position >= i of s that holds ch, or 0
IndexOf(s, ch, i) ==
    IF i > Len(s) THEN 0
    ELSE IF s[i] = ch THEN i
    ELSE IndexOf(s, ch, i + 1)

RECURSIVE Split(_)
\* strings.Split(s, "\n")
Split(s) ==
    LET k == IndexOf(s, "\n", 1)
    IN  IF k = 0 THEN <<s>>
        ELSE <<SubSeq(s, 1, k - 1)>> \o Split(SubSeq(s, k + 1, Len(s)))

----------------------------------------------------------------------------
(* List: the parse of the captured stdout *)

MarkerLine == <<Marker>>

RECURSIVE ScanFrom(_, _)
\* the range loop from Go index i on: the first index whose trimmed line is
\* "Members:", and the zero value of start when the loop runs out
ScanFrom(lines, i) ==
    IF i >= Len(lines) THEN 0
    ELSE IF TrimSpace(lines[i + 1]) = MarkerLine THEN i
    ELSE ScanFrom(lines, i + 1)

RECURSIVE ScanFrom_NotFoundIsEnd(_, _)
ScanFrom_NotFoundIsEnd(lines, i) ==
    IF i >= Len(lines) THEN Len(lines)
    ELSE IF TrimSpace(lines[i + 1]) = MarkerLine THEN i
    ELSE ScanFrom_NotFoundIsEnd(lines, i + 1)

FindStart_NotFoundIsEnd(lines) == ScanFrom_NotFoundIsEnd(lines, 0)

FindStart(lines) == ScanFrom(lines, 0)

NonBlank(l) == TrimSpace(l) # <<>>

RECURSIVE TrimEach(_)
TrimEach(ls) ==
    IF ls = <<>> THEN <<>> ELSE <<TrimSpace(Head(ls))>> \o TrimEach(Tail(ls))

Members_Trimmed(lines, start) ==
    IF Len(lines) <= start + 1 THEN <<>>
    ELSE TrimEach(SelectSeq(SubSeq(lines, start + 2, Len(lines)), NonBlank))

\* lines[start+1:] without the blank lines; a nil slice is <<>>
Members(lines, start) ==
    IF Len(lines) <= start + 1 THEN <<>>
    ELSE SelectSeq(SubSeq(lines, start + 2, Len(lines)), NonBlank)

List_NilOnError(out, err) ==
    LET lines == Split(String(out))
    IN  [members |-> IF err.nil THEN Members(lines, FindStart(lines)) ELSE <<>>,
         err |-> err]

\* what List returns for the buffer and the error run handed it
List(out, err) ==
    LET lines == Split(String(out))
    IN  [members |-> Members(lines, FindStart(lines)), err |-> err]

----------------------------------------------------------------------------
(* The public operations: signatures and argument lists *)

Ops == {"create", "add", "addUnique", "del", "test", "destroy", "save",
        "restore", "flush", "rename", "swap", "list"}
MutatingOps == Ops \ {"test", "list"}

\* the number of fixed string parameters of each method
Fixed(op) ==
    CASE op \in {"create", "add", "addUnique", "del", "test"} -> 2
      [] op \in {"save", "rename", "swap"} -> 2
      [] op \in {"destroy", "restore", "flush", "list"} -> 1

Variadic_NotDelete(op) == op \in {"create", "add", "addUnique", "test"}

\* whether the method has the trailing parameter options ...string
Variadic(op) == op \in {"create", "add", "addUnique", "del", "test"}

WellTyped(op, pos, options) ==
    /\ op \in Ops
    /\ Len(pos) = Fixed(op)
    /\ options # <<>> => Variadic(op)

Args_ExistLast(op, pos, options) ==
    CASE op = "create" -> <<"create", pos[1], pos[2]>> \o options
      [] op = "add" -> <<"add", pos[1], pos[2]>> \o options
      [] op = "addUnique" -> <<"add", pos[1], pos[2]>> \o options \o <<"-exist">>
      [] op = "del" -> <<"del", pos[1], pos[2]>> \o options
      [] op = "test" -> <<"test", pos[1], pos[2]>> \o options
      [] op = "destroy" -> <<"destroy", pos[1]>>
      [] op = "save" -> <<"save", pos[1], "-file", pos[2]>>
      [] op = "restore" -> <<"restore", "-file", pos[1]>>
      [] op = "flush" -> <<"flush", pos[1]>>
      [] op = "rename" -> <<"rename", pos[1], pos[2]>>
      [] op = "swap" -> <<"swap", pos[1], pos[2]>>
      [] op = "list" -> <<"list", pos[1]>>

\* the arguments each method hands to run
Args(op, pos, options) ==
    CASE op = "create" -> <<"create", pos[1], pos[2]>> \o options
      [] op = "add" -> <<"add", pos[1], pos[2]>> \o options
      [] op = "addUnique" -> <<"add", pos[1], pos[2], "-exist">> \o options
      [] op = "del" -> <<"del", pos[1], pos[2]>> \o options
      [] op = "test" -> <<"test", pos[1], pos[2]>> \o options
      [] op = "destroy" -> <<"destroy", pos[1]>>
      [] op = "save" -> <<"save", pos[1], "-file", pos[2]>>
      [] op = "restore" -> <<"restore", "-file", pos[1]>>
      [] op = "flush" -> <<"flush", pos[1]>>
      [] op = "rename" -> <<"rename", pos[1], pos[2]>>
      [] op = "swap" -> <<"swap", pos[1], pos[2]>>
      [] op = "list" -> <<"list", pos[1]>>

----------------------------------------------------------------------------
(* New and run *)

\* exec.LookPath("ipset")
LookPath ==
    IF pathEnv = NotFound
    THEN [path |-> "", err |-> ErrorsNew(<<"executable file not found in $PATH">>)]
    ELSE [path |-> pathEnv, err |-> NilErr]

\* what New returns for the outcome of the lookup
NewResult(binPath, err) ==
    IF err # NilErr THEN NilHandle
    ELSE [nil |-> FALSE, Path |-> binPath, Options |-> <<>>]

RunPath_Relookup(h) == LookPath.path

\* the binary path run uses
RunPath(h) == handle[h].Path

\* the exec.Cmd run builds
Cmd(h, args) == [Path |-> RunPath(h), Args |-> <<RunPath(h)>> \o args]

BufOf_Shared(c) == "c1"

\* the buffers a call's child writes to: the ones its own run declared
BufOf(c) == c

WaitDone_NoWait(ch) == ch.state # "none"

\* cmd.Run returns once the child could not be started or has terminated
WaitDone(ch) == ch.state \in {"nostart", "exited"}

\* cmd.Run returns a non-nil error
CmdRunFailed(ch) == ch.state = "nostart" \/ (ch.state = "exited" /\ ch.code # 0)

RunError_NilOnEmpty(failed, text) ==
    IF failed /\ text # <<>> THEN ErrorsNew(text) ELSE NilErr

RunError_OnStderr(failed, text) ==
    IF failed \/ text # <<>> THEN ErrorsNew(text) ELSE NilErr

\* the error run returns
RunError(failed, text) == IF failed THEN ErrorsNew(text) ELSE NilErr

----------------------------------------------------------------------------
(* The state machine *)

Init ==
    /\ pathEnv \in PathEnvs
    /\ handle = [h \in Handles |-> NilHandle]
    /\ resolved = [h \in Handles |-> ""]
    /\ call = [c \in Calls |-> IdleCall]
    /\ child = [c \in Calls |-> NoChild]
    /\ buffers = [c \in Calls |-> [stdout |-> EmptyBuffer, stderr |-> EmptyBuffer]]

\* the environment installs, moves or removes the binary
SetPathEnv(p) ==
    /\ p # pathEnv
    /\ pathEnv' = p
    /\ UNCHANGED <<handle, resolved, call, child, buffers>>

\* New(): look the binary up and build the handle
New(h) ==
    /\ handle[h].nil
    /\ LET lp == LookPath
       IN  /\ handle' = [handle EXCEPT ![h] = NewResult(lp.path, lp.err)]
           /\ resolved' = [resolved EXCEPT ![h] = lp.path]
    /\ UNCHANGED <<pathEnv, call, child, buffers>>

\* a method call up to the point where cmd.Run has spawned the child (or has
\* failed to) and blocks: the argument list, the exec.Cmd, the fresh buffers
Call(c, h, op, pos, options) ==
    /\ call[c].pc = "idle"
    /\ ~handle[h].nil
    /\ WellTyped(op, pos, options)
    /\ call' = [call EXCEPT ![c] =
                  [pc |-> "running", op |-> op, h |-> h, pos |-> pos,
                   options |-> options, cmd |-> Cmd(h, Args(op, pos, options)),
                   spawns |-> call[c].spawns + 1, readAt |-> "", ret |-> NoRet]]
    /\ buffers' = [buffers EXCEPT ![BufOf(c)] =
                     [stdout |-> EmptyBuffer, stderr |-> EmptyBuffer]]
    /\ \E started \in BOOLEAN :
         child' = [child EXCEPT ![c] =
                     [NoChild EXCEPT !.state = IF started THEN "running" ELSE "nostart"]]
    /\ UNCHANGED <<pathEnv, handle, resolved>>

Create(c, h, name, typ, options) == Call(c, h, "create", <<name, typ>>, options)
Add(c, h, name, entry, options) == Call(c, h, "add", <<name, entry>>, options)
AddUnique(c, h, name, entry, options) == Call(c, h, "addUnique", <<name, entry>>, options)
Delete(c, h, name, entry, options) == Call(c, h, "del", <<name, entry>>, options)
Test(c, h, name, entry, options) == Call(c, h, "test", <<name, entry>>, options)
Destroy(c, h, name) == Call(c, h, "destroy", <<name>>, <<>>)
Save(c, h, name, filename) == Call(c, h, "save", <<name, filename>>, <<>>)
Restore(c, h, filename) == Call(c, h, "restore", <<filename>>, <<>>)
Flush(c, h, name) == Call(c, h, "flush", <<name>>, <<>>)
Rename(c, h, from, to) == Call(c, h, "rename", <<from, to>>, <<>>)
Swap(c, h, from, to) == Call(c, h, "swap", <<from, to>>, <<>>)
ListCall(c, h, name) == Call(c, h, "list", <<name>>, <<>>)

\* the running child prints one character on one of its streams
ChildWrite(c, stream, ch, max) ==
    /\ child[c].state = "running"
    /\ Len(child[c][stream]) < max
    /\ child' = [child EXCEPT ![c][stream] = Append(@, ch)]
    /\ buffers' = [buffers EXCEPT ![BufOf(c)][stream] = Write(@, <<ch>>)]
    /\ UNCHANGED <<pathEnv, handle, resolved, call>>

\* the running child terminates
ChildExit(c, code) ==
    /\ child[c].state = "running"
    /\ child' = [child EXCEPT ![c].state = "exited", ![c].code = code]
    /\ UNCHANGED <<pathEnv, handle, resolved, call, buffers>>

\* cmd.Run returns, run returns the stdout buffer and the error, and the
\* method returns
Return(c) ==
    /\ call[c].pc = "running"
    /\ WaitDone(child[c])
    /\ LET out == buffers[BufOf(c)].stdout
           err == RunError(CmdRunFailed(child[c]), String(buffers[BufOf(c)].stderr))
           ret == IF call[c].op = "list" THEN List(out, err)
                  ELSE [members |-> <<>>, err |-> err]
       IN  call' = [call EXCEPT ![c].pc = "done", ![c].ret = ret,
                                ![c].readAt = child[c].state]
    /\ UNCHANGED <<pathEnv, handle, resolved, child, buffers>>

\* the caller drops the result; the invocation is gone
Forget(c) ==
    /\ call[c].pc = "done"
    /\ call' = [call EXCEPT ![c] = IdleCall]
    /\ child' = [child EXCEPT ![c] = NoChild]
    /\ buffers' = [buffers EXCEPT ![BufOf(c)] =
                     [stdout |-> EmptyBuffer, stderr |-> EmptyBuffer]]
    /\ UNCHANGED <<pathEnv, handle, resolved>>

----------------------------------------------------------------------------
(* Spec: the life of handles and of one call at a time, every operation *)

Next ==
    \/ \E p \in PathEnvs : SetPathEnv(p)
    \/ \E h \in Handles : New(h)
    \/ \E h \in Handles, n \in SmallStrings, o \in SmallOpts : Create("c1", h, n, "hash:ip", o)
    \/ \E h \in Handles, n \in SmallStrings, o \in SmallOpts : Add("c1", h, n, "10.0.0.1", o)
    \/ \E h \in Handles, n \in SmallStrings, o \in SmallOpts : AddUnique("c1", h, n, "10.0.0.1", o)
    \/ \E h \in Handles, n \in SmallStrings, o \in SmallOpts : Delete("c1", h, n, "10.0.0.1", o)
    \/ \E h \in Handles, n \in SmallStrings, o \in SmallOpts : Test("c1", h, n, "10.0.0.1", o)
    \/ \E h \in Handles, n \in SmallStrings : Destroy("c1", h, n)
    \/ \E h \in Handles, n \in SmallStrings : Save("c1", h, n, "/tmp/f")
    \/ \E h \in Handles : Restore("c1", h, "/tmp/f")
    \/ \E h \in Handles, n \in SmallStrings : Flush("c1", h, n)
    \/ \E h \in Handles, n \in SmallStrings : Rename("c1", h, n, "b")
    \/ \E h \in Handles, n \in SmallStrings : Swap("c1", h, n, "b")
    \/ \E h \in Handles, n \in SmallStrings : ListCall("c1", h, n)
    \/ \E ch \in OutChars : ChildWrite("c1", "stdout", ch, MaxOut)
    \/ \E ch \in ErrChars : ChildWrite("c1", "stderr", ch, MaxOut)
    \/ \E code \in ExitCodes : ChildExit("c1", code)
    \/ Return("c1")
    \/ Forget("c1")

Spec == Init /\ [][Next]_vars

(* SpecConc: two threads of control calling Add and List at the same time *)

NextConc ==
    \/ \E h \in Handles : New(h)
    \/ \E c \in Calls, h \in Handles : Add(c, h, "a", "10.0.0.1", <<>>)
    \/ \E c \in Calls, h \in Handles : ListCall(c, h, "a")
    \/ \E c \in Calls, ch \in {Marker, "1"} : ChildWrite(c, "stdout", ch, MaxConcOut)
    \/ \E c \in Calls : ChildWrite(c, "stderr", "e", MaxConcOut)
    \/ \E c \in Calls, code \in ExitCodes : ChildExit(c, code)
    \/ \E c \in Calls : Return(c)
    \/ \E c \in Calls : Forget(c)

SpecConc == Init /\ [][NextConc]_vars

(* SpecArgs: every operation on every combination of argument values *)

NextArgs ==
    \/ New("h1")
    \/ \E a \in ArgStrings, b \in ArgStrings, o \in OptSeqs : Create("c1", "h1", a, b, o)
    \/ \E a \in ArgStrings, b \in ArgStrings, o \in OptSeqs : Add("c1", "h1", a, b, o)
    \/ \E a \in ArgStrings, b \in ArgStrings, o \in OptSeqs : AddUnique("c1", "h1", a, b, o)
    \/ \E a \in ArgStrings, b \in ArgStrings, o \in OptSeqs : Delete("c1", "h1", a, b, o)
    \/ \E a \in ArgStrings, b \in ArgStrings, o \in OptSeqs : Test("c1", "h1", a, b, o)
    \/ \E a \in ArgStrings : Destroy("c1", "h1", a)
    \/ \E a \in ArgStrings, b \in ArgStrings : Save("c1", "h1", a, b)
    \/ \E a \in ArgStrings : Restore("c1", "h1", a)
    \/ \E a \in ArgStrings : Flush("c1", "h1", a)
    \/ \E a \in ArgStrings, b \in ArgStrings : Rename("c1", "h1", a, b)
    \/ \E a \in ArgStrings, b \in ArgStrings : Swap("c1", "h1", a, b)
    \/ \E a \in ArgStrings : ListCall("c1", "h1", a)
    \/ \E code \in ExitCodes : ChildExit("c1", code)
    \/ Return("c1")
    \/ Forget("c1")

SpecArgs == Init /\ [][NextArgs]_vars

(* SpecList: List on every stdout text up to MaxLen characters *)

NextList ==
    \/ New("h1")
    \/ ListCall("c1", "h1", "a")
    \/ \E ch \in ListChars : ChildWrite("c1", "stdout", ch, MaxLen)
    \/ \E code \in ExitCodes : ChildExit("c1", code)
    \/ Return("c1")
    \/ Forget("c1")

SpecList == Init /\ [][NextList]_vars

----------------------------------------------------------------------------
(* What the listing is expected to be, stated on the positions of the text *)

NewlinePos(s) == {i \in 1..Len(s) : s[i] = "\n"}
NumLines(s) == Cardinality(NewlinePos(s)) + 1
\* the position of the k-th newline of s (k >= 1)
KthNewline(s, k) ==
    CHOOSE i \in NewlinePos(s) : Cardinality({j \in NewlinePos(s) : j <= i}) = k
\* the line with Go index k (k >= 0)
LineAt(s, k) ==
    SubSeq(s,
           IF k = 0 THEN 1 ELSE KthNewline(s, k) + 1,
           IF k = NumLines(s) - 1 THEN Len(s) ELSE KthNewline(s, k + 1) - 1)
IsBlankLine(l) == \A j \in 1..Len(l) : IsSpace(l[j])
IsMarkerLine(l) ==
    \E i \in 1..Len(l) : l[i] = Marker /\ \A j \in 1..Len(l) : j # i => IsSpace(l[j])
MarkerIdx(s) == {k \in 0..(NumLines(s) - 1) : IsMarkerLine(LineAt(s, k))}
FirstMarker(s) == CHOOSE k \in MarkerIdx(s) : \A j \in MarkerIdx(s) : k <= j
\* the indices of the lines after index m that are not blank
Kept(s, m) == {k \in (m + 1)..(NumLines(s) - 1) : ~IsBlankLine(LineAt(s, k))}
\* members is exactly the kept lines, in their order, as printed
IsListingAfter(members, s, m) ==
    /\ Len(members) = Cardinality(Kept(s, m))
    /\ \A i \in 1..Len(members) :
         members[i] = LineAt(s, CHOOSE k \in Kept(s, m) :
                                   Cardinality({j \in Kept(s, m) : j <= k}) = i)

ListDone(c) == call[c].pc = "done" /\ call[c].op = "list"
ChildFailed(c) ==
    child[c].state = "nostart" \/ (child[c].state = "exited" /\ child[c].code # 0)

----------------------------------------------------------------------------
(* Properties *)

\* C1: for every operation and all argument values, the argument vector run
\* hands to the child is the binary path, the subcommand, the positional
\* arguments, the fixed flags and then the caller's options in their order,
\* as in the table of subcommands; -exist of addUnique comes right after the
\* positionals.
C1_ArgvMatchesTable ==
    \A c \in Calls : call[c].pc # "idle" =>
        LET op == call[c].op
            p == call[c].pos
            o == call[c].options
            bin == handle[call[c].h].Path
            argv == call[c].cmd.Args
        IN  /\ call[c].cmd.Path = bin
            /\ op = "create" => argv = <<bin, "create", p[1], p[2]>> \o o
            /\ op = "add" => argv = <<bin, "add", p[1], p[2]>> \o o
            /\ op = "addUnique" => argv = <<bin, "add", p[1], p[2], "-exist">> \o o
            /\ op = "del" => argv = <<bin, "del", p[1], p[2]>> \o o
            /\ op = "test" => argv = <<bin, "test", p[1], p[2]>> \o o
            /\ op = "destroy" => argv = <<bin, "destroy", p[1]>>
            /\ op = "save" => argv = <<bin, "save", p[1], "-file", p[2]>>
            /\ op = "restore" => argv = <<bin, "restore", "-file", p[1]>>
            /\ op = "flush" => argv = <<bin, "flush", p[1]>>
            /\ op = "rename" => argv = <<bin, "rename", p[1], p[2]>>
            /\ op = "swap" => argv = <<bin, "swap", p[1], p[2]>>
            /\ op = "list" => argv = <<bin, "list", p[1]>>

C1_Witness ==
    /\ call["c1"].pc = "running"
    /\ call["c1"].op = "addUnique"
    /\ call["c1"].pos = <<"", "">>
    /\ call["c1"].options = <<"timeout", "-exist">>

\* C2: whenever the child exits non-zero or cannot be started, the operation
\* returns a non-nil error whose message is exactly what the child printed on
\* stderr, also when that is empty.
C2_FailureIsStderr ==
    \A c \in Calls : (call[c].pc = "done" /\ ChildFailed(c)) =>
        /\ ~call[c].ret.err.nil
        /\ call[c].ret.err.msg = child[c].stderr

C2_Witness ==
    /\ call["c1"].pc = "done"
    /\ call["c1"].op = "test"
    /\ child["c1"].state = "exited"
    /\ child["c1"].code # 0
    /\ child["c1"].stderr = <<>>

\* C3: when some line of stdout is "Members:" after trimming, List returns
\* exactly the lines after the first such line that are not blank, in order
\* and untrimmed; no returned member is blank.
C3_ListAfterMarker ==
    \A c \in Calls : (ListDone(c) /\ MarkerIdx(child[c].stdout) # {}) =>
        /\ IsListingAfter(call[c].ret.members, child[c].stdout,
                          FirstMarker(child[c].stdout))
        /\ \A i \in 1..Len(call[c].ret.members) :
             ~IsBlankLine(call[c].ret.members[i])

C3_Witness ==
    /\ ListDone("c1")
    /\ child["c1"].stdout = <<Marker, "\n", " ", "1", "\n", "\n", "1">>
    /\ call["c1"].ret.members = << <<" ", "1">>, <<"1">> >>

\* C4: List returns the members parsed from stdout together with the error
\* of the run: the error is the run's, and the members are the same function
\* of stdout whether the run failed or not.
C4_ListKeepsRunError ==
    \A c \in Calls : ListDone(c) =>
        LET s == child[c].stdout
            m == IF MarkerIdx(s) # {} THEN FirstMarker(s) ELSE 0
        IN  /\ call[c].ret.err.nil = ~ChildFailed(c)
            /\ call[c].ret.err.msg = IF ChildFailed(c) THEN child[c].stderr ELSE <<>>
            /\ IsListingAfter(call[c].ret.members, s, m)

C4_Witness ==
    /\ ListDone("c1")
    /\ ~call["c1"].ret.err.nil
    /\ call["c1"].ret.members # <<>>

\* C5: when no line of stdout is "Members:" after trimming, List returns
\* without indexing out of range, and the result is the non-blank lines from
\* Go index 1 on, as if the marker were line 0.
C5_NoMarkerIsLineZero ==
    \A c \in Calls :
        /\ (call[c].pc = "running" /\ call[c].op = "list"
              /\ child[c].state \in {"exited", "nostart"}
              /\ MarkerIdx(String(buffers[c].stdout)) = {}) =>
                LET lines == Split(String(buffers[c].stdout))
                IN  /\ 0 <= FindStart(lines)
                    /\ FindStart(lines) + 1 <= Len(lines)
        /\ (ListDone(c) /\ MarkerIdx(child[c].stdout) = {}) =>
                IsListingAfter(call[c].ret.members, child[c].stdout, 0)

C5_Witness ==
    /\ ListDone("c1")
    /\ child["c1"].stdout = <<"1", "\n", " ", "1", "\n", "1", " ">>
    /\ call["c1"].ret.members = << <<" ", "1">>, <<"1", " ">> >>

\* C6: for every operation other than list, a child that exits zero yields
\* no error, whatever it printed on stdout and stderr.
C6_ExitZeroIsNoError ==
    \A c \in Calls :
        (call[c].pc = "done" /\ call[c].op # "list"
           /\ child[c].state = "exited" /\ child[c].code = 0) =>
        call[c].ret.err = NilErr

C6_Witness ==
    /\ call["c1"].pc = "done"
    /\ call["c1"].op = "add"
    /\ child["c1"].state = "exited"
    /\ child["c1"].code = 0
    /\ child["c1"].stdout # <<>>
    /\ child["c1"].stderr # <<>>

\* C7: a handle exists only if the lookup of its New succeeded; its path is
\* non-empty and is the path resolved then, its options are empty, and every
\* invocation uses that path, whatever the search path holds later.
C7_PathResolvedOnce ==
    /\ \A h \in Handles :
         /\ handle[h].nil <=> resolved[h] = ""
         /\ ~handle[h].nil =>
              /\ handle[h].Path # ""
              /\ handle[h].Path = resolved[h]
              /\ handle[h].Path \in BinPaths
              /\ handle[h].Options = <<>>
    /\ \A c \in Calls : call[c].pc # "idle" =>
         /\ ~handle[call[c].h].nil
         /\ call[c].cmd.Path = resolved[call[c].h]
         /\ call[c].cmd.Args[1] = resolved[call[c].h]

C7_Witness ==
    /\ pathEnv = NotFound
    /\ ~handle["h1"].nil
    /\ handle["h2"].nil
    /\ call["c1"].pc = "done"
    /\ call["c1"].h = "h1"

\* C8: under any interleaving of concurrent calls, the buffers of a call hold
\* only what its own child printed, and what the call returns depends only
\* on its own child.
C8_BuffersPerCall ==
    \A c \in Calls : call[c].pc # "idle" =>
        /\ String(buffers[c].stdout) = child[c].stdout
        /\ String(buffers[c].stderr) = child[c].stderr
        /\ call[c].pc = "done" =>
             /\ call[c].ret.err.nil = ~ChildFailed(c)
             /\ call[c].ret.err.msg = IF ChildFailed(c) THEN child[c].stderr ELSE <<>>
             /\ call[c].op = "list" =>
                  IsListingAfter(call[c].ret.members, child[c].stdout,
                                 IF MarkerIdx(child[c].stdout) # {}
                                 THEN FirstMarker(child[c].stdout) ELSE 0)

C8_Witness ==
    /\ call["c1"].pc = "running" /\ call["c2"].pc = "running"
    /\ call["c1"].op = "add" /\ call["c2"].op = "add"
    /\ call["c1"].h # call["c2"].h
    /\ handle["h1"].Path = handle["h2"].Path
    /\ child["c1"].stdout # <<>> /\ child["c2"].stdout # <<>>
    /\ child["c1"].stdout # child["c2"].stdout
    /\ child["c1"].stderr # child["c2"].stderr

\* a caller's positional arguments for op, for asking what op accepts
SomePos(op) == IF Fixed(op) = 1 THEN <<"a">> ELSE <<"a", "b">>
WithOptions == {"create", "add", "addUnique", "del"}
CanCall == call["c1"].pc = "idle" /\ ~handle["h1"].nil
\* the number of tokens of the argument vector that are not caller options
FixedTokens(op) == 2 + Fixed(op) + (IF op \in {"addUnique", "save", "restore"} THEN 1 ELSE 0)

\* C9 as stated: each of the ten mutating operations accepts a trailing
\* sequence of extra option tokens.
C9_AllTenAcceptOptions ==
    CanCall =>
        \A op \in MutatingOps, o \in OptSeqs :
            ENABLED Call("c1", "h1", op, SomePos(op), o)

\* C9 as amended: of the ten mutating operations, create, add, addUnique and
\* delete accept any trailing sequence of option tokens and pass it through
\* verbatim as the end of the argument vector, paired or not; destroy, flush,
\* rename, swap, save and restore accept no option tokens and pass none.
C9_FourAcceptOptions ==
    /\ CanCall =>
         \A op \in MutatingOps, o \in OptSeqs :
             (ENABLED Call("c1", "h1", op, SomePos(op), o))
                 <=> (op \in WithOptions \/ o = <<>>)
    /\ \A c \in Calls : (call[c].pc # "idle" /\ call[c].op \in MutatingOps) =>
         LET argv == call[c].cmd.Args
             o == call[c].options
         IN  /\ Len(argv) = FixedTokens(call[c].op) + Len(o)
             /\ SubSeq(argv, FixedTokens(call[c].op) + 1, Len(argv)) = o
             /\ call[c].op \notin WithOptions => o = <<>>

C9_Witness ==
    /\ call["c1"].pc = "running"
    /\ call["c1"].op = "del"
    /\ call["c1"].options = <<"timeout">>

\* C10: within one invocation the child is spawned once, the call waits for
\* it, and the captured buffers are read (stderr for the error, stdout by
\* List) only once the child has terminated or could not be started.
C10_ReadAfterExit ==
    \A c \in Calls :
        /\ call[c].pc = "idle" => (call[c].spawns = 0 /\ child[c].state = "none")
        /\ call[c].pc = "running" =>
             /\ call[c].spawns = 1
             /\ call[c].readAt = ""
             /\ child[c].state # "none"
        /\ call[c].pc = "done" =>
             /\ call[c].spawns = 1
             /\ call[c].readAt \in {"exited", "nostart"}
             /\ child[c].state = call[c].readAt
             /\ String(buffers[c].stdout) = child[c].stdout
             /\ String(buffers[c].stderr) = child[c].stderr

C10_Witness ==
    /\ ListDone("c1")
    /\ call["c1"].readAt = "exited"
    /\ child["c1"].code # 0
    /\ Len(child["c1"].stdout) = 2
    /\ Len(child["c1"].stderr) = 2
    /\ call["c1"].ret.members # <<>>

====
